---- MODULE Spec2Model ----
(***************************************************************************)
(* The SEC data-fetch layer: the TTL cache (SECDataCache), the rate_limit  *)
(* decorator and the retrying HTTP session (create_session_with_retries),  *)
(* composed by a fetch orchestrator.                                       *)
(*                                                                         *)
(* Time is counted in ticks of 1/TicksPerSecond seconds.  The code only    *)
(* ever subtracts a stored time from time.time(), so for every stored time *)
(* the model keeps that difference (how long ago it was taken) and Tick    *)
(* adds one to each of them.  A difference stops growing at a cap above    *)
(* every value it is compared with.  Every thread executes the code line   *)
(* by line; the clock may advance between any two lines.                   *)
(*                                                                         *)
(* Three collaborators of that layer are modelled beside it, each with its *)
(* own variables and its own next-state relation: the cache keys of        *)
(* logical requests, the configuration (ConfigLoader, AuthSync and the     *)
(* services that read the environment directly) and the startup of the    *)
(* API server.                                                             *)
(***************************************************************************)
EXTENDS Integers, Sequences, FiniteSets, TLC

\* ---------------------------------------------------------------- bounds
TicksPerSecond == 2      \* resolution of the clock
MaxTtl == 2              \* largest cache ttl tried, in ticks
MaxThreads == 2          \* threads of the concurrent specification
MaxOps == 3              \* API calls started in one run
MaxOpsMT == 2            \* the same, in the concurrent specification
MaxFilters == 2          \* longest list of filters of a logical request
MaxRequests == 2         \* requests sent to the query endpoint in one run
MaxOpsLive == 2          \* API calls started in one run of the fair specification

\* ------------------------------------------------------ program constants
total == 3               \* Retry(total=3)
backoff_factor == 1      \* Retry(backoff_factor=1), seconds

status_forcelist == {429, 500, 502, 503, 504}
allowed_methods == {"HEAD", "GET", "OPTIONS"}

\* ------------------------------------------------------------ input sets
Keys == {"k1", "k2"}
Payloads == {"p1", "p2"}
Methods == {"GET", "POST"}
Statuses == {200, 404, 429, 503}
Rates == {n \in 1..TicksPerSecond : TicksPerSecond % n = 0}

None == "None"
\* no entry for a key; an entry is [ago, data], ago = time.time() - timestamp
NoEntry == [ago |-> -1, data |-> None]

VARIABLES
    ttl,                    \* SECDataCache.ttl
    cache,                  \* SECDataCache.cache
    max_calls_per_second,   \* argument of rate_limit
    last_called_ago,        \* time.time() - last_called[0]
    nthreads,               \* number of threads sharing the objects
    th,                     \* per thread: position and local variables
    calls_left,             \* API calls the run may still start
    hist,                   \* history variables read by the properties
    callers,                \* per caller of fingerprint: its request, key and read
    key_cache,              \* the cache those callers share, keyed by fingerprint
    environ,                \* os.environ, of each of two runs
    auth_ini,               \* the contents of auth.ini, of each of two runs
    config,                 \* the last configuration operation and its results
    services,               \* API server: the state of each service
    app,                    \* API server: its phase and its last responses
    athena_app,             \* query endpoint: the last request and its response
    folder,                 \* os.listdir(data_folder)
    loader                  \* load_local: its last call and what it returned

fetch_vars == <<ttl, cache, max_calls_per_second, last_called_ago, nthreads, th, calls_left, hist>>
fingerprint_vars == <<callers, key_cache>>

\* the state outside the fetch layer, which no step of that layer touches
config_vars == <<environ, auth_ini, config>>
api_vars == <<services, app>>
tool_vars == <<athena_app, folder, loader>>
beside_fetch == <<fingerprint_vars, config_vars, api_vars, tool_vars>>

vars == <<fetch_vars, beside_fetch>>

Threads == 1..nthreads

\* min_interval = 1.0 / max_calls_per_second, in ticks
min_interval == TicksPerSecond \div max_calls_per_second

\* caps of the differences
AgeCap == ttl + 1
CallCap == TicksPerSecond
SpanCap == MaxOps * TicksPerSecond

\* one more tick on a difference; a negative value (no time stored) stays
Older(a, cap) == IF a < 0 \/ a >= cap THEN a ELSE a + 1

\* --------------------------------------------------------------- cache keys
\* a logical request: the kind of data, the company, and a list of filters
Kinds == {"cik", "facts"}
Params == {"AAPL", "MSFT"}
Filters == {"f1", "f2"}
FilterOrder == <<"f1", "f2">>
FilterLists == UNION {[1..n -> Filters] : n \in 0..MaxFilters}
LogicalRequests == [kind : Kinds, param : Params, filters : FilterLists]

Callers == {1, 2}

Range(s) == {s[i] : i \in DOMAIN s}

\* the distinct filters of a list, in ascending order
sorted(fs) == SelectSeq(FilterOrder, LAMBDA f : f \in Range(fs))

\* variant: the filters in the order the caller gave them
fingerprint_as_given(r) == <<r.kind, r.param>> \o r.filters

\* the key of a logical request: kind, parameter and the sorted filters, joined
fingerprint(r) == <<r.kind, r.param>> \o sorted(r.filters)

\* self.cache[key] = value on a dict
dict_set(d, key, value) ==
    [k \in DOMAIN d \cup {key} |-> IF k = key THEN value ELSE d[k]]

\* no request, no key (a key has two parts at least), nothing read
NoRequest == [kind |-> "-", param |-> "-", filters |-> << >>]
NoKey == << >>
NoRead == [of |-> NoRequest, by |-> 0]

\* no caller has a request, the dict is empty
FingerprintIdle ==
    /\ callers = [i \in Callers |-> [request |-> NoRequest, key |-> NoKey, got |-> NoRead]]
    /\ key_cache = << >>

\* step 1 of fetch: key = fingerprint(logical_request)
Fingerprint(i) ==
    /\ callers[i].key = NoKey
    /\ callers' = [callers EXCEPT ![i].key = fingerprint(callers[i].request)]
    /\ UNCHANGED <<fetch_vars, tool_vars, config_vars, api_vars, key_cache>>

\* the payload fetched for the caller's request is stored under its key
KeyPut(i) ==
    /\ callers[i].key # NoKey
    /\ key_cache' = dict_set(key_cache, callers[i].key, [of |-> callers[i].request, by |-> i])
    /\ UNCHANGED <<fetch_vars, tool_vars, config_vars, api_vars, callers>>

\* the caller reads the entry under its key
KeyGet(i) ==
    /\ callers[i].key # NoKey
    /\ callers[i].key \in DOMAIN key_cache
    /\ callers' = [callers EXCEPT ![i].got = key_cache[callers[i].key]]
    /\ UNCHANGED <<fetch_vars, tool_vars, config_vars, api_vars, key_cache>>

\* ------------------------------------------------------------ configuration
\* A name is the sequence of the words that "_" joins in it: the section
\* AWS_DEV is <<"AWS", "DEV">>, the key dev_key is <<"dev", "key">>.
\* str.upper() of one word
UpperWord(w) ==
    CASE w \in {"dev", "DEV"} -> "DEV"
      [] w \in {"key", "KEY"} -> "KEY"
      [] w \in {"Slack", "SLACK"} -> "SLACK"
      [] w \in {"bot", "BOT"} -> "BOT"
      [] w \in {"token", "TOKEN"} -> "TOKEN"
      [] OTHER -> w

upper(name) == [i \in DOMAIN name |-> UpperWord(name[i])]

\* {SECTION_UPPER}_{KEY_UPPER}
env_name(section, key) == upper(section) \o upper(key)

\* the (section, key) pairs an auth.ini may hold, in the order of the file
IniOrder ==
    << << <<"AWS">>, <<"dev", "key">> >>,
       << <<"AWS", "DEV">>, <<"key">> >>,
       << <<"Slack">>, <<"bot", "token">> >> >>
IniPairs == Range(IniOrder)
IniValues == {"file_a", "file_b"}

\* the environment variables: those the pairs are exported to, and the ones
\* the direct-environment services read
POLYGON_API_KEY == <<"POLYGON", "API", "KEY">>
SLACK_BOT_TOKEN == <<"SLACK", "BOT", "TOKEN">>
DirectVars == {POLYGON_API_KEY, SLACK_BOT_TOKEN}
EnvNames == {env_name(p[1], p[2]) : p \in IniPairs} \cup DirectVars
EnvValues == {"env_a"}

Runs == {1, 2}

\* variant: auth.ini is looked at first
get_config_file_first(env, ini, section, key) ==
    IF ini[<<section, key>>] # None THEN ini[<<section, key>>]
    ELSE env[env_name(section, key)]

\* ConfigLoader.get_config: the environment variable, else auth.ini, else None
get_config(env, ini, section, key) ==
    IF env[env_name(section, key)] # None THEN env[env_name(section, key)]
    ELSE ini[<<section, key>>]

\* AuthSync.sync, step 2: the variables auth.ini is about to set are cleared
clear_env_vars(env, ini) ==
    [v \in EnvNames |->
        IF \E p \in IniPairs : ini[p] # None /\ env_name(p[1], p[2]) = v
        THEN None ELSE env[v]]

\* AuthSync.sync, step 3: the first n pairs of the file are exported in turn
RECURSIVE set_env_vars(_, _, _)
set_env_vars(env, ini, n) ==
    IF n = 0 THEN env
    ELSE LET e == set_env_vars(env, ini, n - 1)
             p == IniOrder[n]
         IN IF ini[p] = None THEN e
            ELSE [e EXCEPT ![env_name(p[1], p[2])] = ini[p]]

\* variant: only the variables that are not set yet are exported
sync_missing_only(env, ini) ==
    [v \in EnvNames |-> IF env[v] # None THEN env[v]
                        ELSE set_env_vars(env, ini, Len(IniOrder))[v]]

\* AuthSync.sync: read auth.ini, clear, set
sync(env, ini) == set_env_vars(clear_env_vars(env, ini), ini, Len(IniOrder))

\* variant: a variable that is not set is looked up in auth.ini
direct_credential_with_fallback(env, ini, v) ==
    IF env[v] # None THEN env[v]
    ELSE IF \E p \in IniPairs : ini[p] # None /\ env_name(p[1], p[2]) = v
         THEN ini[CHOOSE p \in IniPairs : ini[p] # None /\ env_name(p[1], p[2]) = v]
         ELSE None

\* a direct-environment service reads its credential: os.getenv(v)
direct_credential(env, ini, v) == env[v]

NoPair == << << >>, << >> >>
NoVar == << >>

\* no operation yet; a variable or an auth.ini entry that is absent is None
NoConfigOp ==
    [op |-> "-", pair |-> NoPair, var |-> NoVar, ret |-> [r \in Runs |-> None],
     synced |-> FALSE, before |-> [r \in Runs |-> [v \in EnvNames |-> None]]]

\* nothing is configured
ConfigIdle ==
    /\ environ = [r \in Runs |-> [v \in EnvNames |-> None]]
    /\ auth_ini = [r \in Runs |-> [p \in IniPairs |-> None]]
    /\ config = NoConfigOp

\* both runs call ConfigLoader().get_config(section, key)
GetConfig(p) ==
    /\ config' = [config EXCEPT !.op = "get_config", !.pair = p, !.var = NoVar,
                    !.ret = [r \in Runs |-> get_config(environ[r], auth_ini[r], p[1], p[2])]]
    /\ UNCHANGED <<fetch_vars, tool_vars, fingerprint_vars, api_vars, environ, auth_ini>>

\* both runs call AuthSync().sync()
Sync ==
    /\ environ' = [r \in Runs |-> sync(environ[r], auth_ini[r])]
    /\ config' = [config EXCEPT !.op = "sync", !.pair = NoPair, !.var = NoVar,
                    !.ret = [r \in Runs |-> None],
                    !.synced = TRUE, !.before = environ]
    /\ UNCHANGED <<fetch_vars, tool_vars, fingerprint_vars, api_vars, auth_ini>>

\* both runs start a direct-environment service, which reads its credential
UseCredential(v) ==
    /\ config' = [config EXCEPT !.op = "credential", !.pair = NoPair, !.var = v,
                    !.ret = [r \in Runs |-> direct_credential(environ[r], auth_ini[r], v)]]
    /\ UNCHANGED <<fetch_vars, tool_vars, fingerprint_vars, api_vars, environ, auth_ini>>

\* --------------------------------------------------------------- API server
\* the services the server initializes on startup, and the services each
\* endpoint uses
Services == {"alpaca", "fred", "sec"}
Endpoints == {"/stock/quote", "/economic/fred", "/plot/fred", "/sec/financials", "/health"}
uses(endpoint) ==
    CASE endpoint = "/stock/quote" -> {"alpaca"}
      [] endpoint = "/economic/fred" -> {"fred"}
      [] endpoint = "/plot/fred" -> {"fred"}
      [] endpoint = "/sec/financials" -> {"sec", "alpaca"}
      [] endpoint = "/health" -> {}

\* what an endpoint's own code answers when its services are there
HandlerStatuses == {200, 404}

\* startup handles the failure of a service: the server keeps starting
on_init_failure(phase) == phase

\* variant: the endpoint does not look at its services
respond_unchecked(endpoint, svc, handled) == handled

\* an endpoint answers 503 when a service it uses is not available
respond(endpoint, svc, handled) ==
    IF \E s \in uses(endpoint) : svc[s] # "available" THEN 503 ELSE handled

\* the server before startup
ApiIdle ==
    /\ services = [s \in Services |-> "pending"]
    /\ app = [phase |-> "starting", failed |-> {},
              response |-> [e \in Endpoints |-> 0], handled |-> [e \in Endpoints |-> 0]]

\* startup initializes a service, which succeeds or fails
InitService(s, ok) ==
    /\ app.phase = "starting"
    /\ services[s] = "pending"
    /\ services' = [services EXCEPT ![s] = IF ok THEN "available" ELSE "unavailable"]
    /\ app' = IF ok THEN app
              ELSE [app EXCEPT !.phase = on_init_failure(app.phase),
                               !.failed = app.failed \cup {s}]
    /\ UNCHANGED <<fetch_vars, tool_vars, fingerprint_vars, config_vars>>

\* startup is over: the server takes requests
StartupComplete ==
    /\ app.phase = "starting"
    /\ \A s \in Services : services[s] # "pending"
    /\ app' = [app EXCEPT !.phase = "serving"]
    /\ UNCHANGED <<fetch_vars, tool_vars, fingerprint_vars, config_vars, services>>

\* a request to an endpoint, whose own code would answer handled
Request(endpoint, handled) ==
    /\ app.phase = "serving"
    /\ app' = [app EXCEPT !.response[endpoint] = respond(endpoint, services, handled),
                          !.handled[endpoint] = handled]
    /\ UNCHANGED <<fetch_vars, tool_vars, fingerprint_vars, config_vars, services>>

\* ----------------------------------------------------------- query endpoint
\* POST /api/query of the Athena API.  A string is the sequence of its
\* characters.
LowerCase == <<"a", "c", "d", "e", "i", "l", "n", "o", "p", "r", "s", "t", "u">>
UpperCase == <<"A", "C", "D", "E", "I", "L", "N", "O", "P", "R", "S", "T", "U">>

\* str.upper, of one character
UpperChar(ch) ==
    IF \E i \in DOMAIN LowerCase : LowerCase[i] = ch
    THEN UpperCase[CHOOSE i \in DOMAIN LowerCase : LowerCase[i] = ch]
    ELSE ch

\* variant: the query is compared as it was sent
query_as_given(query) == query

\* query_upper = query.upper()
query_upper(query) == [i \in DOMAIN query |-> UpperChar(query[i])]

\* keyword in query_upper: a substring
in(keyword, str) ==
    \E i \in 0..(Len(str) - Len(keyword)) : SubSeq(str, i + 1, i + Len(keyword)) = keyword

dangerous_keywords ==
    {<<"D", "R", "O", "P">>, <<"D", "E", "L", "E", "T", "E">>, <<"I", "N", "S", "E", "R", "T">>, <<"U", "P", "D", "A", "T", "E">>, <<"C", "R", "E", "A", "T", "E">>}

\* return not any(keyword in query_upper for keyword in dangerous_keywords)
is_safe_query(query) ==
    ~\E keyword \in dangerous_keywords : in(keyword, query_upper(query))

\* JSON values: null (or no such field), a string, a number
JNull == [t |-> "null", v |-> << >>]
JStr(str) == [t |-> "str", v |-> str]
JNum(digits) == [t |-> "num", v |-> digits]

\* the queries tried
QueryStrings ==
    {<< >>, <<"s", "e", "l", "e", "c", "t">>, <<"s", "e", "l", " ", "e", "c", "t">>, <<"d", "r", "o", "p">>, <<"D", "R", "O", "P">>, <<"D", "r", "o", "P">>, <<"d", "r", "o">>, <<"d", "r", "o", " ", "p">>,
     <<"u", "p", "d", "a", "t", "e", "d">>, <<"C", "r", "e", "a", "t", "e", "d">>, <<"i", "n", "s", "e", "r", "t">>, <<"D", "E", "L", "E", "T", "E">>}
QueryValues == {JNull, JNum(<<"0">>), JNum(<<"5">>)} \cup {JStr(q) : q \in QueryStrings}
DatabaseValues == {JNull, JStr(<<"other">>)}

\* the body of a request: a JSON object, or anything else
Bodies ==
    {[kind |-> "other", query |-> JNull, database |-> JNull]}
    \cup [kind : {"object"}, query : QueryValues, database : DatabaseValues]
NoBody == [kind |-> "-", query |-> JNull, database |-> JNull]

\* not query
falsy(value) ==
    \/ value.t = "null"
    \/ value.t = "str" /\ value.v = << >>
    \/ value.t = "num" /\ value.v = <<"0">>

\* data.get('database', 'billing_analysis')
database_of(body) ==
    IF body.database = JNull THEN JStr(<<"billing_analysis">>) ELSE body.database

NoResponse == [status |-> 0, called |-> FALSE, query |-> JNull, database |-> JNull]

\* execute_query: the response to a request, athena.execute_query returning
\* a frame (athena_ok) or raising.  data.get raises on a body that is not an
\* object and query.upper() on a query that is not a string; `except
\* Exception` answers every exception with 500.
execute_query(body, athena_ok) ==
    IF body.kind # "object" THEN [NoResponse EXCEPT !.status = 500]
    ELSE IF falsy(body.query) THEN [NoResponse EXCEPT !.status = 400]
    ELSE IF body.query.t # "str" THEN [NoResponse EXCEPT !.status = 500]
    ELSE IF ~is_safe_query(body.query.v) THEN [NoResponse EXCEPT !.status = 400]
    ELSE [status |-> IF athena_ok THEN 200 ELSE 500, called |-> TRUE,
          query |-> body.query, database |-> database_of(body)]

\* the endpoint before its first request
QueryIdle ==
    athena_app = [left |-> MaxRequests, body |-> NoBody, athena_ok |-> TRUE,
                  response |-> NoResponse, calls |-> 0]

\* a request to POST /api/query
PostQuery(body, athena_ok) ==
    /\ athena_app.left > 0
    /\ LET response == execute_query(body, athena_ok)
       IN athena_app' = [left |-> athena_app.left - 1, body |-> body,
                         athena_ok |-> athena_ok, response |-> response,
                         calls |-> athena_app.calls + IF response.called THEN 1 ELSE 0]
    /\ UNCHANGED <<fetch_vars, fingerprint_vars, config_vars, api_vars, folder, loader>>

\* --------------------------------------------------------------- load_local
\* A file name is the sequence of its parts, the last one its extension.
users_csv == <<"users", ".csv">>
products_csv == <<"products", ".csv">>
orders_parquet == <<"orders", ".parquet">>
notes_txt == <<"notes", ".txt">>
users_csv_bak == <<"users", ".csv", ".bak">>
hhh_csv == <<"hhh", ".csv">>

\* the files a folder may hold; hhh.csv is in no folder
FolderNames == {users_csv, products_csv, orders_parquet, notes_txt, users_csv_bak}
FileNames == FolderNames \cup {hhh_csv, << >>}

\* selected_files: None, or a list
NoList == [none |-> TRUE, files |-> << >>]
List(files) == [none |-> FALSE, files |-> files]
SelectedFiles ==
    {NoList, List(<< >>), List(<<users_csv>>), List(<<users_csv, hhh_csv>>),
     List(<<products_csv, users_csv>>), List(<<notes_txt>>), List(<<hhh_csv>>)}

data_folder == "data"

\* f.endswith(suffixes)
endswith(f, suffixes) == Len(f) > 0 /\ f[Len(f)] \in suffixes

\* os.path.join(data_folder, file)
join(dir, file) == [dir |-> dir, name |-> file]

\* load_file(path, use_polars) of a local path: the frame read from the file,
\* or the error raised
load_file(files, path) ==
    IF endswith(path.name, {".csv", ".parquet"})
    THEN IF path.name \in files THEN [err |-> "-", frame |-> path]
         ELSE [err |-> "FileNotFoundError", frame |-> path]
    ELSE [err |-> "ValueError", frame |-> path]

\* all_files = [f for f in os.listdir(data_folder) if f.endswith(('.csv', '.parquet'))]
all_files(files) == {f \in files : endswith(f, {".csv", ".parquet"})}

\* variant: selected_files is not looked at
files_to_load_all(all, selected_files) == all

\* if selected_files: [file for file in all_files if file in selected_files]
\* else: all_files
files_to_load(all, selected_files) ==
    IF ~selected_files.none /\ selected_files.files # << >>
    THEN {file \in all : file \in Range(selected_files.files)}
    ELSE all

\* load_local: a single frame (or the error of load_file), or the dict of
\* the frames by file name
load_local(files, file_name, load_all, selected_files) ==
    IF ~load_all
    THEN LET df == load_file(files, join(data_folder, file_name))
         IN [kind |-> IF df.err = "-" THEN "frame" ELSE df.err,
             frames |-> {[key |-> file_name, df |-> df]}]
    ELSE [kind |-> "dict",
          frames |-> {[key |-> file, df |-> load_file(files, join(data_folder, file))] :
                         file \in files_to_load(all_files(files), selected_files)}]

NoCall == [file_name |-> << >>, load_all |-> FALSE, selected_files |-> NoList,
           ret |-> [kind |-> "-", frames |-> {}]]

\* no folder is looked at
LoadIdle == folder = {} /\ loader = NoCall

\* load_local(data_folder, file_name, use_polars, load_all, selected_files)
LoadLocal(file_name, load_all, selected_files) ==
    /\ loader' = [file_name |-> file_name, load_all |-> load_all,
                  selected_files |-> selected_files,
                  ret |-> load_local(folder, file_name, load_all, selected_files)]
    /\ UNCHANGED <<fetch_vars, fingerprint_vars, config_vars, api_vars, athena_app, folder>>

\* the tools beside the server, not in use
ToolsIdle == QueryIdle /\ LoadIdle

\* ------------------------------------------------------ thread-local state
IdleRec ==
    [pc |-> "idle", caller |-> "-", key |-> "-", method |-> "-",
     ago |-> -1, data |-> None, ret |-> None, err |-> "-",
     sleep |-> 0, retries |-> -1,
     \* history of the call in progress
     gago |-> -1, after_fail |-> FALSE, attempts |-> 0, status |-> 0, slept |-> 0,
     blocked |-> FALSE, wrote |-> FALSE]

Set(t, r) == th' = [th EXCEPT ![t] = r]

\* ------------------------------------------------------------ SECDataCache
\* variants of the expiry test: none at all, one tick late, reversed
FreshNoExpiry(ago) == TRUE
FreshInclusive(ago) == ago <= ttl
FreshReversed(ago) == ago >= ttl

\* time.time() - timestamp < self.ttl
Fresh(ago) == ago < ttl

\* variant: an existing entry keeps its timestamp
put_keeps_timestamp(c, key, data) ==
    [c EXCEPT ![key] = [ago |-> IF c[key] = NoEntry THEN 0 ELSE c[key].ago, data |-> data]]

\* self.cache[key] = (time.time(), data)
put(c, key, data) == [c EXCEPT ![key] = [ago |-> 0, data |-> data]]

\* variant: only the expired entries are removed
clear_expired_only(c) ==
    [k \in Keys |-> IF c[k] # NoEntry /\ c[k].ago < ttl THEN c[k] ELSE NoEntry]

\* self.cache.clear()
clear(c) == [k \in Keys |-> NoEntry]

\* variant: the eviction sweeps every expired entry out
del_every_expired(c, key) ==
    [k \in Keys |-> IF k = key \/ c[k].ago >= ttl THEN NoEntry ELSE c[k]]

\* del self.cache[key]
del(c, key) == [c EXCEPT ![key] = NoEntry]

\* where get hands its result: to the API caller, or back into fetch
GetReturn(r, value) ==
    [r EXCEPT !.pc = IF r.caller = "fetch" THEN "fetch_got" ELSE "get_done",
              !.ret = value, !.ago = -1, !.data = None]

\* an exception leaves get; fetch lets it through to its caller
GetRaise(r, e) ==
    [r EXCEPT !.pc = IF r.caller = "fetch" THEN "failed" ELSE "get_done",
              !.err = e, !.ago = -1, !.data = None]

\* a value under a key that is not a (timestamp, data) pair: it has no time
Unreadable == [ago |-> -3, data |-> "unreadable"]

\* the entry a put or a clear is about to replace, for the history: its data,
\* and for its age 0 when it is unexpired and ttl when it is expired; the
\* history keeps it only when it was switched on
NotMeasured == [ago |-> -2, data |-> None]
Found(k) ==
    IF hist.found[k] = NotMeasured THEN NotMeasured
    ELSE IF cache[k] = NoEntry THEN NoEntry
    ELSE [ago |-> IF cache[k].ago < ttl THEN 0 ELSE ttl, data |-> cache[k].data]

\* whether a get has returned the entry of a key since it was stored, for the
\* history: 0 no, 1 yes, -2 when the history does not keep it
Unread(h) == IF h = -2 THEN -2 ELSE 0
Read(h) == IF h = -2 THEN -2 ELSE 1

\* ---------------------------------------------------------------- actions
\* API: cache.put(k, v)
CallPut(t, k, v) ==
    /\ th[t].pc = "idle" /\ calls_left > 0
    /\ cache' = put(cache, k, v)
    /\ hist' = [hist EXCEPT !.lastPut[k] = [ago |-> 0, data |-> v],
                            !.lastFail[k] = FALSE,
                            !.found[k] = Found(k),
                            !.hit[k] = Unread(@)]
    /\ calls_left' = calls_left - 1
    /\ UNCHANGED <<beside_fetch, ttl, max_calls_per_second, last_called_ago, nthreads, th>>

\* API: cache.clear()
CallClear(t) ==
    /\ th[t].pc = "idle" /\ calls_left > 0
    /\ cache' = clear(cache)
    /\ hist' = [hist EXCEPT !.lastPut = [k \in Keys |-> NoEntry],
                            !.lastFail = [k \in Keys |-> FALSE],
                            !.found = [k \in Keys |-> Found(k)],
                            !.hit = [k \in Keys |-> Unread(@[k])]]
    /\ calls_left' = calls_left - 1
    /\ UNCHANGED <<beside_fetch, ttl, max_calls_per_second, last_called_ago, nthreads, th>>

\* API: cache.get(k)
CallGet(t, k) ==
    /\ th[t].pc = "idle" /\ calls_left > 0
    /\ Set(t, [IdleRec EXCEPT !.pc = "get_in", !.caller = "api", !.key = k])
    /\ calls_left' = calls_left - 1
    /\ UNCHANGED <<beside_fetch, ttl, cache, max_calls_per_second, last_called_ago, nthreads, hist>>

\* API: fetch(k) with a request of method m; its first step is cache.get(k)
CallFetch(t, k, m) ==
    /\ th[t].pc = "idle" /\ calls_left > 0
    /\ Set(t, [IdleRec EXCEPT !.pc = "get_in", !.caller = "fetch", !.key = k, !.method = m,
                              !.after_fail = hist.lastFail[k]])
    /\ calls_left' = calls_left - 1
    /\ UNCHANGED <<beside_fetch, ttl, cache, max_calls_per_second, last_called_ago, nthreads, hist>>

\* if key in self.cache:  ...  return None
GetContains(t) ==
    /\ th[t].pc = "get_in"
    /\ IF cache[th[t].key] # NoEntry
       THEN Set(t, [th[t] EXCEPT !.pc = "get_read"])
       ELSE Set(t, GetReturn([th[t] EXCEPT !.gago = hist.lastPut[th[t].key].ago], None))
    /\ UNCHANGED <<beside_fetch, ttl, cache, max_calls_per_second, last_called_ago, nthreads, calls_left, hist>>

\* timestamp, data = self.cache[key]
GetRead(t) ==
    /\ th[t].pc = "get_read"
    /\ IF cache[th[t].key] = NoEntry
       THEN Set(t, GetRaise(th[t], "KeyError"))
       ELSE IF cache[th[t].key] = Unreadable
       THEN Set(t, GetRaise(th[t], "ValueError"))
       ELSE Set(t, [th[t] EXCEPT !.pc = "get_check",
                                 !.ago = cache[th[t].key].ago,
                                 !.data = cache[th[t].key].data])
    /\ UNCHANGED <<beside_fetch, ttl, cache, max_calls_per_second, last_called_ago, nthreads, calls_left, hist>>

\* variant: a hit stores the entry anew (a sliding expiration)
on_hit_refresh(c, key) == [c EXCEPT ![key].ago = 0]

\* return data: a hit writes nothing to self.cache
on_hit(c, key) == c

\* if time.time() - timestamp < self.ttl: return data
GetCheck(t) ==
    /\ th[t].pc = "get_check"
    /\ LET r == [th[t] EXCEPT !.gago = hist.lastPut[th[t].key].ago]
       IN IF Fresh(th[t].ago)
          THEN /\ Set(t, GetReturn(r, th[t].data))
               /\ cache' = on_hit(cache, th[t].key)
               /\ hist' = [hist EXCEPT !.hit[th[t].key] = Read(@)]
          ELSE /\ Set(t, [r EXCEPT !.pc = "get_del"])
               /\ UNCHANGED <<cache, hist>>
    /\ UNCHANGED <<beside_fetch, ttl, max_calls_per_second, last_called_ago, nthreads, calls_left>>

\* else: del self.cache[key];  return None
GetDel(t) ==
    /\ th[t].pc = "get_del"
    /\ IF cache[th[t].key] # NoEntry
       THEN /\ cache' = del(cache, th[t].key)
            /\ Set(t, GetReturn(th[t], None))
       ELSE /\ Set(t, GetRaise(th[t], "KeyError"))
            /\ UNCHANGED cache
    /\ UNCHANGED <<beside_fetch, ttl, max_calls_per_second, last_called_ago, nthreads, calls_left, hist>>

\* fetch, after get: a hit is served at once, a miss goes to the rate-limited transport
FetchGot(t) ==
    /\ th[t].pc = "fetch_got"
    /\ IF th[t].ret # None
       THEN Set(t, [th[t] EXCEPT !.pc = "served"])
       ELSE Set(t, [th[t] EXCEPT !.pc = "rl_enter"])
    /\ UNCHANGED <<beside_fetch, ttl, cache, max_calls_per_second, last_called_ago, nthreads, calls_left, hist>>

\* ------------------------------------------------------------- rate_limit
\* variant: a call that comes too early waits a whole interval
left_to_wait_whole_interval(elapsed) == IF elapsed < min_interval THEN min_interval ELSE 0

\* elapsed = time.time() - last_called[0];  left_to_wait = min_interval - elapsed
left_to_wait(elapsed) == min_interval - elapsed

\* history: one more invocation of wrapper has ended (counted when the run
\* measures the span of its invocations)
Counted(n) == IF hist.span = -2 THEN n ELSE n + 1

\* wrapper: compute left_to_wait;  if left_to_wait > 0: time.sleep(left_to_wait)
RlCheck(t) ==
    /\ th[t].pc = "rl_enter"
    /\ LET w == left_to_wait(last_called_ago)
       IN IF w > 0
          THEN Set(t, [th[t] EXCEPT !.pc = "rl_sleep", !.sleep = w, !.blocked = TRUE])
          ELSE Set(t, [th[t] EXCEPT !.pc = "rl_call"])
    /\ hist' = [hist EXCEPT !.span = IF hist.span = -1 THEN 0 ELSE hist.span]
    /\ UNCHANGED <<beside_fetch, ttl, cache, max_calls_per_second, last_called_ago, nthreads, calls_left>>

\* time.sleep returns once the requested time has passed
RlWake(t) ==
    /\ th[t].pc = "rl_sleep"
    /\ th[t].sleep = 0
    /\ Set(t, [th[t] EXCEPT !.pc = "rl_call"])
    /\ UNCHANGED <<beside_fetch, ttl, cache, max_calls_per_second, last_called_ago, nthreads, calls_left, hist>>

\* result = func(*args, **kwargs): the wrapped operation starts
RlCall(t) ==
    /\ th[t].pc = "rl_call"
    /\ Set(t, [th[t] EXCEPT !.pc = "send", !.retries = total])
    /\ hist' = [hist EXCEPT !.start_ago = 0]
    /\ UNCHANGED <<beside_fetch, ttl, cache, max_calls_per_second, last_called_ago, nthreads, calls_left>>

\* last_called[0] = time.time();  return result
RlReturn(t) ==
    /\ th[t].pc = "rl_ret"
    /\ last_called_ago' = 0
    /\ Set(t, [th[t] EXCEPT !.pc = "fetch_put", !.wrote = TRUE])
    /\ hist' = [hist EXCEPT !.ninv = Counted(hist.ninv)]
    /\ UNCHANGED <<beside_fetch, ttl, cache, max_calls_per_second, nthreads, calls_left>>

\* func raised: the exception leaves wrapper at the call line, skipping the
\* assignment to last_called[0]
RlRaise(t) ==
    /\ th[t].pc = "rl_raise"
    /\ Set(t, [th[t] EXCEPT !.pc = "fetch_raise"])
    /\ hist' = [hist EXCEPT !.ninv = Counted(hist.ninv)]
    /\ UNCHANGED <<beside_fetch, ttl, cache, max_calls_per_second, last_called_ago, nthreads, calls_left>>

\* ------------------------------------------- create_session_with_retries
\* variant: every error status is retried
is_retry_any_error(method, status) == method \in allowed_methods /\ status >= 400

\* variant: only the 5xx statuses are retried
is_retry_server_errors(method, status) == method \in allowed_methods /\ status >= 500

\* variant: the method of the request is not looked at
is_retry_any_method(method, status) == status \in status_forcelist

\* Retry.is_retry: the method is allowed and the status is in status_forcelist
is_retry(method, status) == method \in allowed_methods /\ status \in status_forcelist

\* Retry.increment: one retry less of the total
increment(retries) == retries - 1

\* variant: exhausted one retry early
is_exhausted_early(retries) == retries <= 0

\* Retry.is_exhausted
is_exhausted(retries) == retries < 0

RECURSIVE Pow2(_)
Pow2(n) == IF n <= 0 THEN 1 ELSE 2 * Pow2(n - 1)

\* variant: the first retry is delayed as well
get_backoff_time_from_first(n) == backoff_factor * TicksPerSecond * Pow2(n - 1)

\* Retry.get_backoff_time after n consecutive errors, in ticks: nothing
\* before the first retry, then backoff_factor * 2^(n - 1) seconds, which
\* stays under Retry's cap of 120 seconds for every n <= total.  The
\* responses carry no Retry-After header.
get_backoff_time(n) ==
    IF n <= 1 THEN 0 ELSE backoff_factor * TicksPerSecond * Pow2(n - 1)

\* what the wrapped operation makes of a response that is not retried:
\* the payload of a 200, an error for any other status
ResponseOk(status) == status = 200

\* one transport attempt and what the retry policy makes of its response
Send(t, status, payload) ==
    /\ th[t].pc = "send"
    /\ LET r == [th[t] EXCEPT !.attempts = th[t].attempts + 1, !.status = status]
           left == increment(th[t].retries)
       IN IF is_retry(th[t].method, status)
          THEN IF is_exhausted(left)
               THEN Set(t, [r EXCEPT !.pc = "rl_raise", !.err = "MaxRetryError"])
               ELSE Set(t, [r EXCEPT !.pc = "backoff", !.retries = left,
                                     !.sleep = get_backoff_time(total - left),
                                     !.slept = r.slept + get_backoff_time(total - left)])
          ELSE IF ResponseOk(status)
               THEN Set(t, [r EXCEPT !.pc = "rl_ret", !.ret = payload])
               ELSE Set(t, [r EXCEPT !.pc = "rl_raise", !.err = "HTTPError"])
    /\ UNCHANGED <<beside_fetch, ttl, cache, max_calls_per_second, last_called_ago, nthreads, calls_left, hist>>

\* the backoff sleep ends
BackoffWake(t) ==
    /\ th[t].pc = "backoff"
    /\ th[t].sleep = 0
    /\ Set(t, [th[t] EXCEPT !.pc = "send"])
    /\ UNCHANGED <<beside_fetch, ttl, cache, max_calls_per_second, last_called_ago, nthreads, calls_left, hist>>

\* -------------------------------------------------------------------- fetch
\* variant: the failure is stored like a payload
on_failure_stored(c, key) == put(c, key, "error")

\* what fetch stores when the transport failed: nothing
on_failure(c, key) == c

\* fetch, on success: put(key, payload), then return the payload
FetchPut(t) ==
    /\ th[t].pc = "fetch_put"
    /\ cache' = put(cache, th[t].key, th[t].ret)
    /\ Set(t, [th[t] EXCEPT !.pc = "served"])
    /\ hist' = [hist EXCEPT !.lastPut[th[t].key] = [ago |-> 0, data |-> th[t].ret],
                            !.lastFail[th[t].key] = FALSE,
                            !.found[th[t].key] = Found(th[t].key),
                            !.hit[th[t].key] = Unread(@)]
    /\ UNCHANGED <<beside_fetch, ttl, max_calls_per_second, last_called_ago, nthreads, calls_left>>

\* fetch, on failure: the failure goes to the caller
FetchRaise(t) ==
    /\ th[t].pc = "fetch_raise"
    /\ cache' = on_failure(cache, th[t].key)
    /\ Set(t, [th[t] EXCEPT !.pc = "failed"])
    /\ hist' = [hist EXCEPT !.lastFail[th[t].key] = TRUE]
    /\ UNCHANGED <<beside_fetch, ttl, max_calls_per_second, last_called_ago, nthreads, calls_left>>

\* from outside SECDataCache: the value under key k in the dict self.cache
\* is replaced by one that get cannot read
Corrupt(k) ==
    /\ calls_left > 0
    /\ cache' = [cache EXCEPT ![k] = Unreadable]
    /\ calls_left' = calls_left - 1
    /\ UNCHANGED <<beside_fetch, ttl, max_calls_per_second, last_called_ago, nthreads, th, hist>>

\* the call returns (or its exception reaches the caller)
Return(t) ==
    /\ th[t].pc \in {"served", "failed", "get_done"}
    /\ Set(t, IdleRec)
    /\ UNCHANGED <<beside_fetch, ttl, cache, max_calls_per_second, last_called_ago, nthreads, calls_left, hist>>

\* variant: a sleep that never ends
sleep_never_ends(left) == left

\* time.sleep(left): what is left of the sleep one tick later
sleep_after_tick(left) == IF left > 0 THEN left - 1 ELSE 0

\* the clock advances by one tick
Tick ==
    /\ cache' = [k \in Keys |-> [cache[k] EXCEPT !.ago = Older(@, AgeCap)]]
    /\ last_called_ago' = Older(last_called_ago, CallCap)
    /\ th' = [t \in Threads |->
                [th[t] EXCEPT !.ago = Older(@, AgeCap),
                              !.sleep = sleep_after_tick(@)]]
    /\ hist' = [hist EXCEPT !.lastPut = [k \in Keys |-> [@[k] EXCEPT !.ago = Older(@, AgeCap)]],
                            !.start_ago = Older(@, CallCap),
                            !.span = Older(@, SpanCap)]
    /\ UNCHANGED <<beside_fetch, ttl, max_calls_per_second, nthreads, calls_left>>

\* ---------------------------------------------------------- specification
\* after construction: an empty cache and last_called = [0.0], which is
\* longer ago than any min_interval
InitWith(n, budget, measure) ==
    /\ ttl \in 1..MaxTtl
    /\ cache = [k \in Keys |-> NoEntry]
    /\ max_calls_per_second \in Rates
    /\ last_called_ago = CallCap
    /\ nthreads = n
    /\ th = [t \in 1..n |-> IdleRec]
    /\ calls_left = budget
    /\ hist = [lastPut |-> [k \in Keys |-> NoEntry], lastFail |-> [k \in Keys |-> FALSE],
               found |-> [k \in Keys |-> IF measure = "found" THEN NoEntry ELSE NotMeasured],
               hit |-> [k \in Keys |-> IF measure = "hit" THEN 0 ELSE -2],
               start_ago |-> -1, span |-> IF measure = "span" THEN -1 ELSE -2, ninv |-> 0]

\* nothing outside the fetch layer is in use
BesideIdle == FingerprintIdle /\ ConfigIdle /\ ApiIdle /\ ToolsIdle

Init == InitWith(1, MaxOps, "none") /\ BesideIdle

\* one thread, and the history measures the span of the wrapper's invocations
InitSeq == InitWith(1, MaxOps, "span") /\ BesideIdle

\* one thread, and the history keeps what each put and clear replaced; the
\* rate of the limiter, which plays no part in the cache, is one per second
InitCache == InitWith(1, MaxOps, "found") /\ max_calls_per_second = 1 /\ BesideIdle

InitMT == InitWith(MaxThreads, MaxOpsMT, "none") /\ BesideIdle

\* the fetch layer after construction, never called
FetchIdle == InitWith(1, 0, "none") /\ ttl = 1 /\ max_calls_per_second = 1

Next ==
    \/ \E t \in Threads, k \in Keys, v \in Payloads : CallPut(t, k, v)
    \/ \E t \in Threads : CallClear(t)
    \/ \E t \in Threads, k \in Keys : CallGet(t, k)
    \/ \E t \in Threads, k \in Keys, m \in Methods : CallFetch(t, k, m)
    \/ \E t \in Threads : GetContains(t)
    \/ \E t \in Threads : GetRead(t)
    \/ \E t \in Threads : GetCheck(t)
    \/ \E t \in Threads : GetDel(t)
    \/ \E t \in Threads : FetchGot(t)
    \/ \E t \in Threads : RlCheck(t)
    \/ \E t \in Threads : RlWake(t)
    \/ \E t \in Threads : RlCall(t)
    \/ \E t \in Threads, s \in Statuses, p \in Payloads : Send(t, s, p)
    \/ \E t \in Threads : BackoffWake(t)
    \/ \E t \in Threads : RlReturn(t)
    \/ \E t \in Threads : RlRaise(t)
    \/ \E t \in Threads : FetchPut(t)
    \/ \E t \in Threads : FetchRaise(t)
    \/ \E t \in Threads : Return(t)
    \/ Tick

\* one thread: the calls happen one after the other
Spec == Init /\ [][Next]_vars

\* a step of the call thread t is in: every line of get, wrapper and fetch
\* returns, and so does every transport attempt (its own request timeout)
Step(t) ==
    \/ GetContains(t) \/ GetRead(t) \/ GetCheck(t) \/ GetDel(t) \/ FetchGot(t)
    \/ RlCheck(t) \/ RlWake(t) \/ RlCall(t)
    \/ (\E s \in Statuses, p \in Payloads : Send(t, s, p))
    \/ BackoffWake(t) \/ RlReturn(t) \/ RlRaise(t) \/ FetchPut(t) \/ FetchRaise(t)

\* one thread that is always scheduled again, and a clock that keeps running
InitLive == InitWith(1, MaxOpsLive, "none") /\ max_calls_per_second = 1 /\ BesideIdle

SpecLive == InitLive /\ [][Next]_vars /\ WF_vars(Step(1)) /\ WF_vars(Tick)

\* one thread, with the span of the invocations measured
SpecSeq == InitSeq /\ [][Next]_vars

\* one thread, with what put and clear replaced remembered
SpecCache == InitCache /\ [][Next]_vars

\* MaxThreads threads share the cache and the rate-limited operation
SpecMT == InitMT /\ [][Next]_vars

\* one thread, and the history keeps which entries a get has returned
InitReads == InitWith(1, MaxOps, "hit") /\ max_calls_per_second = 1 /\ BesideIdle

SpecReads == InitReads /\ [][Next]_vars

\* one thread, and a dict whose values can be damaged from outside
InitCorrupt == InitWith(1, MaxOps, "none") /\ max_calls_per_second = 1 /\ BesideIdle

NextCorrupt ==
    \/ Next
    \/ \E k \in Keys : Corrupt(k)

SpecCorrupt == InitCorrupt /\ [][NextCorrupt]_vars

\* MaxThreads threads at the cache: put, get, clear and the cache check of
\* fetch, up to the point where a miss would go on to the transport
InitCacheMT == InitWith(MaxThreads, MaxOps, "none") /\ max_calls_per_second = 1 /\ BesideIdle

NextCacheMT ==
    \/ \E t \in Threads, k \in Keys, v \in Payloads : CallPut(t, k, v)
    \/ \E t \in Threads : CallClear(t)
    \/ \E t \in Threads, k \in Keys : CallGet(t, k)
    \/ \E t \in Threads, k \in Keys, m \in Methods : CallFetch(t, k, m)
    \/ \E t \in Threads : GetContains(t)
    \/ \E t \in Threads : GetRead(t)
    \/ \E t \in Threads : GetCheck(t)
    \/ \E t \in Threads : GetDel(t)
    \/ \E t \in Threads : FetchGot(t)
    \/ \E t \in Threads : Return(t)
    \/ Tick

SpecCacheMT == InitCacheMT /\ [][NextCacheMT]_vars

\* two callers with any two logical requests; the fetch layer is at rest
InitFingerprint ==
    /\ FetchIdle /\ ConfigIdle /\ ApiIdle /\ ToolsIdle
    /\ callers \in [Callers -> [request : LogicalRequests, key : {NoKey}, got : {NoRead}]]
    /\ key_cache = << >>

NextFingerprint ==
    \/ \E i \in Callers : Fingerprint(i)
    \/ \E i \in Callers : KeyPut(i)
    \/ \E i \in Callers : KeyGet(i)

SpecFingerprint == InitFingerprint /\ [][NextFingerprint]_vars

\* two runs that start with the same environment, each with its own auth.ini
InitConfig ==
    /\ FetchIdle /\ FingerprintIdle /\ ApiIdle /\ ToolsIdle
    /\ \E e \in [EnvNames -> EnvValues \cup {None}] : environ = [r \in Runs |-> e]
    /\ auth_ini \in [Runs -> [IniPairs -> IniValues \cup {None}]]
    /\ config = NoConfigOp

NextConfig ==
    \/ \E p \in IniPairs : GetConfig(p)
    \/ Sync
    \/ \E v \in DirectVars : UseCredential(v)

SpecConfig == InitConfig /\ [][NextConfig]_vars

\* the API server from its start
InitApi == FetchIdle /\ FingerprintIdle /\ ConfigIdle /\ ApiIdle /\ ToolsIdle

NextApi ==
    \/ \E s \in Services, ok \in BOOLEAN : InitService(s, ok)
    \/ StartupComplete
    \/ \E e \in Endpoints, h \in HandlerStatuses : Request(e, h)

SpecApi == InitApi /\ [][NextApi]_vars

\* the query endpoint from its start
InitQuery == FetchIdle /\ FingerprintIdle /\ ConfigIdle /\ ApiIdle /\ QueryIdle /\ LoadIdle

NextQuery == \E body \in Bodies, athena_ok \in BOOLEAN : PostQuery(body, athena_ok)

SpecQuery == InitQuery /\ [][NextQuery]_vars

\* load_local on any folder
InitLoad ==
    /\ FetchIdle /\ FingerprintIdle /\ ConfigIdle /\ ApiIdle /\ QueryIdle
    /\ folder \in SUBSET FolderNames
    /\ loader = NoCall

NextLoad ==
    \E file_name \in FileNames, load_all \in BOOLEAN, selected_files \in SelectedFiles :
        LoadLocal(file_name, load_all, selected_files)

SpecLoad == InitLoad /\ [][NextLoad]_vars

\* ------------------------------------------------------------- properties
\* the call of thread t has ended
Ended(t) == th[t].pc \in {"served", "failed", "get_done"}

\* when get made its expiry test, the most recent put for the key (with no
\* clear since) was less than ttl ago
PutWasFresh(t) == th[t].gago # -1 /\ th[t].gago < ttl

\* C1: a get (called directly or by fetch) returns a value only if the cache
\* holds an entry for the key that was stored less than ttl before the expiry
\* test, and the value is the one the most recent put for the key stored.
C1_NeverServesExpired ==
    \A t \in Threads :
        (th[t].pc \in {"get_done", "fetch_got"} /\ th[t].ret # None) =>
            /\ cache[th[t].key] # NoEntry
            /\ PutWasFresh(t)
            /\ cache[th[t].key] = hist.lastPut[th[t].key]
            /\ th[t].ret = hist.lastPut[th[t].key].data

\* a get returned a value stored ttl - 1 ticks before its expiry test
C1_Witness ==
    \E t \in Threads :
        th[t].pc = "get_done" /\ th[t].ret # None /\ th[t].gago = ttl - 1 /\ ttl > 1

\* the statuses that are errors and are not retried
PermanentStatuses == {s \in Statuses : s >= 400 /\ s \notin status_forcelist}

\* every response of the call so far had a status of status_forcelist, to a
\* request whose method may be retried
OnlyRetryable(t) ==
    /\ th[t].caller = "fetch"
    /\ th[t].method \in allowed_methods
    /\ th[t].status \in status_forcelist

\* C2 (as claimed): under every interleaving of the threads, the wrapped
\* operation never starts less than min_interval after its previous start.
C2_MinIntervalBetweenStarts ==
    [][\A t \in Threads :
          (th[t].pc = "rl_call" /\ th'[t].pc = "send") =>
              (hist.start_ago = -1 \/ hist.start_ago >= min_interval)]_vars

\* C3 (as claimed): a fetch whose every response was retryable makes exactly
\* max_attempts = 3 attempts, never more, and then fails.
C3_ExactlyMaxAttempts ==
    \A t \in Threads :
        /\ th[t].attempts <= total
        /\ (OnlyRetryable(t) /\ Ended(t)) =>
               (th[t].attempts = total /\ th[t].pc = "failed")

\* C3 (amended): a fetch whose every response was retryable makes exactly
\* total + 1 = 4 attempts (the first and total = 3 retries), never more, and
\* then fails with the error of the exhausted retries, returning nothing.
C3_InitialPlusTotalRetries ==
    \A t \in Threads :
        /\ th[t].attempts <= total + 1
        /\ (OnlyRetryable(t) /\ Ended(t)) =>
               /\ th[t].attempts = total + 1
               /\ th[t].pc = "failed"
               /\ th[t].err = "MaxRetryError"
               /\ th[t].ret = None

\* a fetch failed after four retryable responses
C3_Witness ==
    \E t \in Threads :
        th[t].pc = "failed" /\ OnlyRetryable(t) /\ th[t].attempts = total + 1

\* C4: when a fetch has failed the cache holds no entry for its key; a fetch
\* for a key whose previous fetch failed (with no put for the key since) calls
\* the network again, and when it succeeds it returns the payload of that call
\* and the cache holds it.
C4_FailuresNotCached ==
    \A t \in Threads :
        th[t].caller = "fetch" =>
            /\ th[t].pc = "failed" => cache[th[t].key] = NoEntry
            /\ (th[t].pc = "served" /\ th[t].after_fail) =>
                   /\ th[t].attempts >= 1
                   /\ th[t].status = 200
                   /\ th[t].ret \in Payloads
                   /\ cache[th[t].key] # NoEntry
                   /\ cache[th[t].key].data = th[t].ret

\* a fetch succeeded for a key whose previous fetch had failed
C4_Witness ==
    \E t \in Threads :
        th[t].pc = "served" /\ th[t].after_fail /\ th[t].attempts >= 1

\* C5: a fetch whose get found an unexpired entry returns the value of that
\* entry, makes no transport attempt, never sleeps in the rate limiter and
\* never assigns last_called.
C5_HitHasNoNetworkEffect ==
    \A t \in Threads :
        (th[t].caller = "fetch" /\ PutWasFresh(t)) =>
            /\ th[t].pc \in {"fetch_got", "served"}
            /\ th[t].ret = hist.lastPut[th[t].key].data
            /\ th[t].attempts = 0
            /\ ~th[t].blocked
            /\ ~th[t].wrote

\* a fetch was served from the cache while a call less than min_interval ago
\* would have made the rate limiter sleep
C5_Witness ==
    \E t \in Threads :
        /\ th[t].caller = "fetch" /\ th[t].pc = "served" /\ PutWasFresh(t)
        /\ last_called_ago < min_interval

\* no response of the call so far had an error status
NoErrorResponse(t) == th[t].status \in {0, 200} /\ th[t].retries \in {-1, total}

\* C6: a fetch that meets no error response makes one network call when no
\* unexpired entry exists for its key and none otherwise; it returns the
\* cached payload in the second case, and the payload of its call in the
\* first, which the cache then holds.
C6_OneCallPerExpiry ==
    \A t \in Threads :
        (th[t].caller = "fetch" /\ Ended(t) /\ NoErrorResponse(t)) =>
            /\ th[t].pc = "served"
            /\ IF PutWasFresh(t)
               THEN /\ th[t].attempts = 0
                    /\ th[t].ret = hist.lastPut[th[t].key].data
               ELSE /\ th[t].attempts = 1
                    /\ th[t].ret \in Payloads
                    /\ cache[th[t].key] # NoEntry
                    /\ cache[th[t].key].data = th[t].ret

\* a fetch made one new call for a key whose entry was stored exactly ttl
\* before the expiry test
C6_Witness ==
    \E t \in Threads :
        /\ th[t].caller = "fetch" /\ th[t].pc = "served"
        /\ th[t].gago = ttl /\ th[t].attempts = 1

\* C7 (as claimed): when the wrapped operation has raised, last_called is no
\* older than the start of that attempt.
C7_FailureConsumesSlot ==
    \A t \in Threads :
        (th[t].pc \in {"fetch_raise", "failed"} /\ th[t].attempts >= 1) =>
            last_called_ago <= hist.start_ago

\* C8: a get that follows put(k, v), with no other put(k, .) and no clear in
\* between, returns v when its expiry test is made less than ttl after the
\* put (the same tick included) and None when it is made ttl or more after it.
C8_PutGetRoundTrip ==
    \A t \in Threads :
        th[t].pc = "get_done" =>
            /\ th[t].err = "-"
            /\ th[t].ret = IF PutWasFresh(t)
                           THEN hist.lastPut[th[t].key].data
                           ELSE None

\* a get returned None for an entry stored exactly ttl before its expiry test
C8_Witness ==
    \E t \in Threads :
        th[t].pc = "get_done" /\ th[t].gago = ttl /\ th[t].ret = None

\* C9 (as claimed): when the invocations come one after the other, the first
\* M of them take at least (M - 1) * min_interval from the entry of the first
\* to the end of the M-th.
C9_SequentialSpacing ==
    hist.ninv >= 1 => hist.span >= (hist.ninv - 1) * min_interval

\* C10: once a response has a status that is an error and is not retried, the
\* transport neither sleeps nor sends again: the call raises at once, after
\* one attempt when that response was the first, whatever retries are left.
C10_PermanentNotRetried ==
    \A t \in Threads :
        th[t].status \in PermanentStatuses =>
            /\ th[t].pc \in {"rl_raise", "fetch_raise", "failed"}
            /\ th[t].err = "HTTPError"
            /\ th[t].sleep = 0
            /\ th[t].attempts = total - th[t].retries + 1
            /\ th[t].retries = total => (th[t].attempts = 1 /\ th[t].slept = 0)

\* a fetch failed on a 404 to its first attempt with all retries left
C10_Witness ==
    \E t \in Threads :
        /\ th[t].pc = "failed" /\ th[t].status = 404
        /\ th[t].attempts = 1 /\ th[t].retries = total

\* a fetch whose request has a mutating method
Mutating(t) == th[t].caller = "fetch" /\ th[t].method \notin {"HEAD", "GET", "OPTIONS"}

\* C11: a request with a mutating method is attempted at most once, and once
\* it has a response, a retryable status included, it has been attempted
\* exactly once, no retry is taken from the budget and nothing is slept; a
\* second attempt is only ever made for HEAD, GET or OPTIONS.
C11_MutatingNotRetried ==
    \A t \in Threads :
        /\ Mutating(t) =>
              /\ th[t].attempts <= 1
              /\ th[t].status # 0 => th[t].attempts = 1
              /\ th[t].pc # "backoff"
              /\ th[t].retries \in {-1, total}
              /\ th[t].slept = 0
              /\ th[t].status \in status_forcelist =>
                    (th[t].pc \in {"rl_raise", "fetch_raise", "failed"} /\ th[t].err = "HTTPError")
        /\ th[t].attempts >= 2 => th[t].method \in {"HEAD", "GET", "OPTIONS"}

\* a POST failed after one attempt whose response was a 503
C11_Witness ==
    \E t \in Threads :
        /\ Mutating(t) /\ th[t].pc = "failed"
        /\ th[t].status = 503 /\ th[t].attempts = 1

\* C12: a retryable response to an idempotent request that is at most the
\* total-th response is followed by a backoff and another attempt, never by a
\* failure; and once an attempt is answered 200 after j retryable responses
\* the call succeeds on attempt j + 1, fetch returns the payload of that
\* response and the cache holds it.
C12_TransientRecovered ==
    \A t \in Threads :
        /\ (OnlyRetryable(t) /\ th[t].attempts <= total) =>
              (th[t].pc \in {"backoff", "send"} /\ th[t].err = "-")
        /\ (th[t].caller = "fetch" /\ th[t].status = 200) =>
              /\ th[t].pc \in {"rl_ret", "fetch_put", "served"}
              /\ th[t].err = "-"
              /\ th[t].attempts = (total - th[t].retries) + 1
              /\ th[t].ret \in Payloads
              /\ th[t].pc = "served" =>
                    (cache[th[t].key] # NoEntry /\ cache[th[t].key].data = th[t].ret)

\* a fetch was served on its third attempt, after two retried responses
C12_Witness ==
    \E t \in Threads :
        /\ th[t].caller = "fetch" /\ th[t].pc = "served"
        /\ th[t].status = 200 /\ th[t].attempts = 3 /\ th[t].retries = total - 2
        /\ cache[th[t].key].data = th[t].ret

\* a fetch whose transport has started; total - retries of its responses were
\* retried so far
InTransport(t) == th[t].caller = "fetch" /\ th[t].retries # -1

\* C13 (as claimed): nothing is slept before the first attempt, the n-th
\* failed attempt is followed by a sleep of backoff_factor * 2^(n-1) seconds,
\* so n retried failures have slept backoff_factor * (2^n - 1) seconds, and a
\* success on the third attempt comes after at least 3 * backoff_factor.
C13_BackoffFromFirstFailure ==
    \A t \in Threads :
        InTransport(t) =>
            /\ th[t].slept = backoff_factor * TicksPerSecond * (Pow2(total - th[t].retries) - 1)
            /\ (th[t].status = 200 /\ th[t].attempts = 3) =>
                  th[t].slept >= 3 * backoff_factor * TicksPerSecond

\* C13 (amended): nothing is slept before the first attempt nor before the
\* first retry; the n-th failed attempt, n >= 2, is followed by a sleep of
\* backoff_factor * 2^(n-1) seconds, so n retried failures have slept
\* backoff_factor * (2^n - 2) seconds, and a success on the third attempt
\* comes after exactly 2 * backoff_factor seconds of backoff.
C13_BackoffAfterSecondFailure ==
    \A t \in Threads :
        InTransport(t) =>
            LET n == total - th[t].retries
            IN /\ th[t].slept = IF n <= 1 THEN 0
                                 ELSE backoff_factor * TicksPerSecond * (Pow2(n) - 2)
               /\ th[t].pc = "backoff" =>
                     th[t].sleep <= IF n <= 1 THEN 0
                                    ELSE backoff_factor * TicksPerSecond * Pow2(n - 1)
               /\ (th[t].status = 200 /\ th[t].attempts = 3) =>
                     th[t].slept = 2 * backoff_factor * TicksPerSecond

\* a fetch succeeded on its third attempt, after two retried failures
C13_Witness ==
    \E t \in Threads :
        /\ InTransport(t) /\ th[t].pc = "rl_ret"
        /\ th[t].status = 200 /\ th[t].attempts = 3
        /\ th[t].slept = 2 * backoff_factor * TicksPerSecond

\* the two requests have the same kind, the same parameter and the same set
\* of filters
SameRequest(r1, r2) ==
    r1.kind = r2.kind /\ r1.param = r2.param /\ Range(r1.filters) = Range(r2.filters)

C15_ClearRemovesAll ==
    /\ \A k \in Keys : hist.lastPut[k] = NoEntry => cache[k] = NoEntry
    /\ \A t \in Threads :
          (th[t].pc \in {"get_done", "fetch_got"} /\ th[t].gago = -1) =>
              (th[t].ret = None /\ th[t].err = "-")

\* a get returned None for a key whose entry was unexpired when clear()
\* removed it
C15_Witness ==
    \E t \in Threads :
        /\ th[t].pc = "get_done" /\ th[t].ret = None /\ th[t].gago = -1
        /\ hist.lastPut[th[t].key] = NoEntry
        /\ hist.found[th[t].key] \notin {NoEntry, NotMeasured}
        /\ hist.found[th[t].key].ago < ttl

\* the last put for the key replaced an entry
Overwrote(k) ==
    hist.lastPut[k] # NoEntry /\ hist.found[k] \notin {NoEntry, NotMeasured}

\* C16: the cache holds one entry per key at most, and an entry is the value
\* and the time of the latest put for its key, whatever that put replaced;
\* a get that follows a put which replaced an entry, expired or not, returns
\* the value of that put when its expiry test is made less than ttl after it
\* and None otherwise, the age of the replaced entry playing no part.
C16_PutOverwrites ==
    /\ DOMAIN cache = Keys
    /\ \A k \in Keys :
          cache[k] # NoEntry => cache[k] = hist.lastPut[k]
    /\ \A t \in Threads :
          (th[t].pc = "get_done" /\ Overwrote(th[t].key)) =>
              /\ th[t].err = "-"
              /\ th[t].ret = IF th[t].gago < ttl
                             THEN hist.lastPut[th[t].key].data
                             ELSE None

\* a get returned the value of a put that had replaced an expired entry with
\* another value
C16_Witness ==
    \E t \in Threads :
        /\ th[t].pc = "get_done" /\ Overwrote(th[t].key)
        /\ hist.found[th[t].key].ago >= ttl
        /\ hist.found[th[t].key].data # hist.lastPut[th[t].key].data
        /\ th[t].ret = hist.lastPut[th[t].key].data

\* the environment variable the claims name for a pair
VarOf(p) ==
    CASE p = << <<"AWS">>, <<"dev", "key">> >> -> <<"AWS", "DEV", "KEY">>
      [] p = << <<"AWS", "DEV">>, <<"key">> >> -> <<"AWS", "DEV", "KEY">>
      [] p = << <<"Slack">>, <<"bot", "token">> >> -> <<"SLACK", "BOT", "TOKEN">>

\* C17: get_config(section, key) has returned the value of the environment
\* variable SECTION_KEY when that is set, also when auth.ini has the key;
\* otherwise the auth.ini value of [section] key when present; otherwise None.
C17_EnvironmentFirst ==
    config.op = "get_config" =>
        \A r \in Runs :
            LET e == environ[r][VarOf(config.pair)]
                f == auth_ini[r][config.pair]
            IN /\ e # None => config.ret[r] = e
               /\ (e = None /\ f # None) => config.ret[r] = f
               /\ (e = None /\ f = None) => config.ret[r] = None

\* get_config returned the environment's value while auth.ini had another
C17_Witness ==
    /\ config.op = "get_config"
    /\ \E r \in Runs :
          /\ environ[r][VarOf(config.pair)] = "env_a"
          /\ auth_ini[r][config.pair] = "file_a"
          /\ config.ret[r] = "env_a"

\* the pairs that auth.ini of run r has
Present(r) == {p \in IniPairs : auth_ini[r][p] # None}

\* what sync() has established for the pairs in P(r), and that a second sync()
\* changes nothing
AfterSync(P(_)) ==
    /\ config'.synced =>
          \A r \in Runs : \A p \in P(r) : environ'[r][VarOf(p)] = auth_ini'[r][p]
    /\ (config'.synced /\ config'.op = "get_config") =>
          \A r \in Runs : config'.pair \in P(r) => config'.ret[r] = auth_ini'[r][config'.pair]
    /\ (config.synced /\ config'.op = "sync") => environ' = environ

Unshared(r) ==
    {p \in Present(r) : \A q \in Present(r) \ {p} : VarOf(q) # VarOf(p)}

Exported(v) ==
    config.synced /\ \E r \in Runs : \E p \in Present(r) : VarOf(p) = v

C20_UnavailableServiceAnswers503 ==
    /\ app.phase # "crashed"
    /\ \A s \in Services :
          /\ s \in app.failed => services[s] = "unavailable"
          /\ (s \notin app.failed /\ services[s] # "pending") => services[s] = "available"
    /\ (app.phase = "starting" /\ \A s \in Services : services[s] # "pending") =>
          ENABLED StartupComplete
    /\ \A e \in Endpoints :
          app.response[e] # 0 =>
              /\ app.phase = "serving"
              /\ uses(e) \cap app.failed # {} => app.response[e] = 503
              /\ uses(e) \cap app.failed = {} =>
                    (app.response[e] = app.handled[e] /\ app.response[e] # 503)

\* with fred failed at startup the server answered 503 on both fred
\* endpoints and 200 on the stock and health endpoints
C20_Witness ==
    /\ app.phase = "serving" /\ app.failed = {"fred"}
    /\ app.response["/economic/fred"] = 503 /\ app.handled["/economic/fred"] = 200
    /\ app.response["/plot/fred"] = 503
    /\ app.response["/stock/quote"] = 200
    /\ app.response["/health"] = 200

\* C21: under concurrent calls every get completes without an error; in
\* particular two threads that read the same expired key both return absent.
\* (Gets of a key that was put and not cleared since: a clear plays no part.)
C21_EveryGetCompletes ==
    \A t \in Threads :
        (th[t].pc = "get_done" /\ hist.lastPut[th[t].key] # NoEntry) => th[t].err = "-"

\* C22: of two fetches of the same key that are in progress at the same time,
\* at most one has called the network.
C22_OneFetchPerKey ==
    \A t1, t2 \in Threads :
        (/\ t1 # t2
         /\ th[t1].caller = "fetch" /\ th[t2].caller = "fetch"
         /\ th[t1].key = th[t2].key
         /\ ~Ended(t1) /\ ~Ended(t2))
        => ~(th[t1].attempts >= 1 /\ th[t2].attempts >= 1)

\* the state of the request a thread's fetch is serving ("-": no fetch)
Phase(r) ==
    IF r.caller # "fetch" THEN "-"
    ELSE IF r.pc \in {"get_in", "get_read", "get_check", "get_del", "fetch_got"} THEN "UNFETCHED"
    ELSE IF r.pc \in {"rl_enter", "rl_sleep", "rl_call", "send", "backoff"} THEN "FETCHING"
    ELSE IF r.pc \in {"rl_ret", "fetch_put"} THEN "SUCCEEDED"
    ELSE IF r.pc = "served" THEN "SERVED"
    ELSE "FAILED"

\* one step of thread t stays in its state or takes one of the transitions
PhaseStep(t) ==
    LET a == Phase(th[t])
        b == Phase(th'[t])
        r == th'[t]
    IN \/ a = b
       \/ a = "-" /\ b = "UNFETCHED"
       \/ a = "UNFETCHED" /\ b = "SERVED" /\ r.ret # None /\ r.attempts = 0 /\ cache' = cache
       \/ a = "UNFETCHED" /\ b = "FETCHING"
       \/ a = "FETCHING" /\ b = "SUCCEEDED" /\ ResponseOk(r.status)
       \/ a = "FETCHING" /\ b = "FAILED" /\ r.attempts >= 1
       \/ a = "SUCCEEDED" /\ b = "SERVED" /\ cache'[r.key] = [ago |-> 0, data |-> r.ret]
       \/ a \in {"SERVED", "FAILED"} /\ b = "-"

\* C23: every fetch goes UNFETCHED -> SERVED (a hit), UNFETCHED -> FETCHING ->
\* SUCCEEDED -> SERVED with the put made on the way from SUCCEEDED to SERVED,
\* or UNFETCHED -> FETCHING -> FAILED; FAILED is never followed by SERVED and
\* the next call starts at UNFETCHED.
C23_PerRequestStateMachine == [][\A t \in Threads : PhaseStep(t)]_vars

\* C24: every fetch call eventually reaches SERVED or FAILED, given that each
\* transport attempt returns and each sleep ends.
C24_EveryFetchTerminates ==
    (th[1].caller = "fetch") ~> (th[1].pc \in {"served", "failed"})

\* a fetch that was blocked by the limiter and used every retry has ended
C24_Witness ==
    /\ th[1].caller = "fetch" /\ th[1].pc = "failed"
    /\ th[1].blocked /\ th[1].attempts = total + 1

\* thread t leaves the line of wrapper it was at
Leaves(t, pc) == th[t].pc = pc /\ th'[t].pc # pc

\* C25: wrapper blocks if and only if elapsed = now - last_invocation is less
\* than min_interval, and then for min_interval - elapsed; otherwise, and on
\* the first invocation, it calls f at once; when f has returned it sets
\* last_invocation and hands f's result on unchanged.
C25_WaitRule ==
    [][\A t \in Threads :
        /\ Leaves(t, "rl_enter") =>
               IF last_called_ago < min_interval
               THEN /\ th'[t].pc = "rl_sleep"
                    /\ th'[t].sleep = min_interval - last_called_ago
               ELSE th'[t].pc = "rl_call"
        /\ (Leaves(t, "rl_enter") /\ hist.start_ago = -1) => th'[t].pc = "rl_call"
        /\ Leaves(t, "rl_sleep") => (th[t].sleep = 0 /\ th'[t].pc = "rl_call")
        /\ Leaves(t, "rl_call") => th'[t].pc = "send"
        /\ Leaves(t, "rl_ret") =>
               /\ last_called_ago' = 0
               /\ th'[t].pc = "fetch_put" /\ th'[t].ret = th[t].ret
      ]_vars

\* a call one tick after the last one, with a longer min_interval, sleeps
\* what is left of it
C25_Witness ==
    \E t \in Threads :
        /\ th[t].pc = "rl_sleep" /\ last_called_ago = 1
        /\ th[t].sleep >= 1 /\ th[t].sleep = min_interval - 1

\* after the step the cache holds for k what it held, possibly a tick older
Kept(k) ==
    \/ cache'[k] = cache[k]
    \/ cache'[k] = [cache[k] EXCEPT !.ago = Older(@, AgeCap)]

\* thread t is inside get
InGet(t) == th[t].pc \in {"get_in", "get_read", "get_check", "get_del"}

\* C26: the entry of key k changes only through a get(k) that finds it
\* expired, a put(k, .) or a clear(); time alone removes nothing; get(k)
\* removes the entry if and only if it is expired and leaves the entries of
\* the other keys alone.
C26_LazyPerKeyEviction ==
    [][/\ \A k \in Keys :
            ~Kept(k) =>
                \/ \E t \in Threads :
                       /\ Leaves(t, "get_del") /\ th[t].key = k
                       /\ cache[k].ago >= ttl /\ cache'[k] = NoEntry
                \/ \E t \in Threads, v \in Payloads : CallPut(t, k, v)
                \/ \E t \in Threads : FetchPut(t) /\ th[t].key = k
                \/ \E t \in Threads : CallClear(t)
       /\ \A t \in Threads :
            /\ Leaves(t, "get_check") =>
                   (th'[t].pc = "get_del" <=> cache[th[t].key].ago >= ttl)
            /\ Leaves(t, "get_del") => cache'[th[t].key] = NoEntry
            /\ (InGet(t) /\ th'[t].pc # th[t].pc) =>
                   \A k \in Keys \ {th[t].key} : cache'[k] = cache[k]
      ]_vars

\* an entry that expired long ago and was not read is still in the cache
\* after a get of the other key
C26_Witness ==
    \E t \in Threads :
        /\ th[t].pc = "get_done" /\ th[t].key = "k2"
        /\ cache["k1"] # NoEntry /\ cache["k1"].ago > ttl

\* C27: a get that hits leaves the cache as it is, the stored time included,
\* so a get made ttl or more after the put of an entry returns absent
\* however often the entry was read in between.
C27_NoSlidingExpiration ==
    [][\A t \in Threads :
        /\ (Leaves(t, "get_check") /\ th'[t].ret # None) => cache' = cache
        /\ (th'[t].pc \in {"get_done", "fetch_got"} /\ th'[t].gago >= ttl) =>
               th'[t].ret = None
      ]_vars

\* an entry was read while it was fresh, and a get ttl after its put returned
\* absent
C27_Witness ==
    \E t \in Threads :
        /\ th[t].pc = "get_done" /\ th[t].ret = None /\ th[t].err = "-"
        /\ th[t].gago >= ttl /\ hist.hit[th[t].key] = 1

LowerOf(ch) == LowerCase[CHOOSE i \in DOMAIN UpperCase : UpperCase[i] = ch]

\* str holds one of the keywords, each letter in either case
HasKeyword(str) ==
    \E keyword \in dangerous_keywords, i \in 1..Len(str) :
        /\ i + Len(keyword) - 1 <= Len(str)
        /\ \A j \in 1..Len(keyword) : str[i + j - 1] \in {keyword[j], LowerOf(keyword[j])}

\* C29: POST /api/query hands a query to Athena only if it is there, not
\* empty and holds none of DROP, DELETE, INSERT, UPDATE, CREATE in any letter
\* case; a query that is missing, empty or holds a keyword is answered 400
\* without a call of Athena; an exception of the execution is answered 500,
\* and every request gets a response.
C29_QueryGuard ==
    LET body == athena_app.body
        response == athena_app.response
    IN body # NoBody =>
        /\ response.called =>
              /\ body.kind = "object" /\ body.query.t = "str"
              /\ body.query.v # << >> /\ ~HasKeyword(body.query.v)
              /\ response.query = body.query
        /\ (body.kind = "object" /\ (body.query.v = << >> \/ HasKeyword(body.query.v))) =>
              (response.status = 400 /\ ~response.called)
        /\ (response.called /\ ~athena_app.athena_ok) => response.status = 500
        /\ response.status = 200 => (response.called /\ athena_app.athena_ok)
        /\ response.status \in {200, 400, 500}

\* after a query that was executed, a query with a keyword in mixed case
\* inside a word was answered 400
C29_Witness ==
    /\ athena_app.body.query = JStr(<<"C", "r", "e", "a", "t", "e", "d">>)
    /\ athena_app.response.status = 400 /\ ~athena_app.response.called
    /\ athena_app.calls = 1

\* C30: with load_all the keys of the result are the names of the files of
\* the folder that end in .csv or .parquet and, when selected_files is not
\* empty, are in selected_files, whatever file_name is; without load_all the
\* one file data_folder/file_name is loaded, whatever selected_files is.
C30_LoadLocalSelection ==
    LET ret == loader.ret
        selected == loader.selected_files.files
    IN ret.kind # "-" =>
        IF loader.load_all
        THEN /\ ret.kind = "dict"
             /\ {fr.key : fr \in ret.frames} =
                   {f \in folder :
                       /\ f[Len(f)] = ".csv" \/ f[Len(f)] = ".parquet"
                       /\ selected # << >> => \E i \in DOMAIN selected : selected[i] = f}
             /\ \A fr \in ret.frames :
                   fr.df = [err |-> "-", frame |-> [dir |-> data_folder, name |-> fr.key]]
        ELSE /\ ret.kind # "dict"
             /\ {fr.df.frame : fr \in ret.frames} =
                   {[dir |-> data_folder, name |-> loader.file_name]}

\* load_all with a selected file that is missing and a file_name that is in
\* the folder: only the selected file that is there was loaded
C30_Witness ==
    /\ loader.load_all /\ loader.selected_files = List(<<users_csv, hhh_csv>>)
    /\ loader.file_name = orders_parquet
    /\ {users_csv, products_csv, orders_parquet} \subseteq folder
    /\ {fr.key : fr \in loader.ret.frames} = {users_csv}

====
